---- MODULE Spec2Model ----
(***************************************************************************)
(* A model of the embedding pipeline of EmbedAnything:                     *)
(*   - the local backends' embed (rust/src/embeddings/local/bert.rs),      *)
(*   - the directory orchestration emb_directory / emb_text                *)
(*     (rust/src/lib.rs),                                                  *)
(*   - embed_file of the Rust library and of the Python binding            *)
(*     (rust/src/lib.rs, python/src/lib.rs).                               *)
(*   - the entry points' use of TextEmbedConfig, embed_query,              *)
(*     embed_webpage and the construction of models                        *)
(*     (rust/src/lib.rs, python/src/config.rs, python/src/lib.rs),         *)
(*   - the L2 normalisation of the backends (bert.rs).                     *)
(*   - the truncation length chosen when a backend is constructed          *)
(*     (bert.rs), and the collecting arm of emb_directory (lib.rs).        *)
(* The specifications share the variables: SpecEmbed is one call of a      *)
(* backend's embed, Spec is one call of embed_directory or embed_file,     *)
(* SpecLive is Spec over smaller directories with the fairness of the      *)
(* executor, SpecApi is one call of a function of the API with its config  *)
(* argument, SpecNorm is the normalisation of one pooled row,              *)
(* SpecConstruct is the construction of one backend, SpecCollect is the    *)
(* collecting arm of emb_directory over given results of its futures.      *)
(***************************************************************************)
EXTENDS Integers, Sequences, FiniteSets, Bags, TLC

\* ------------------------------------------------------------------------
\* Bounds of the model
\* ------------------------------------------------------------------------
\* longest text_batch handed to embed
MaxTexts == 3
\* longest text, in tokens (after truncation)
MaxTokLen == 2
\* largest batch size a caller provides
MaxBatch == 2
\* most files a directory holds
MaxFiles == 3
\* most chunk groups split_into_chunks gives for one file
MaxGroups == 2
\* chunks in one chunk group
ChunksPerGroup == 2
\* most hardware threads num_cpus::get() reports
MaxCpus == 2
\* most files of a directory, and most chunk groups of a file, in the runs
\* whose termination is checked
LiveFiles == 2
LiveGroups == 1

\* ------------------------------------------------------------------------
\* Option<T>: None is <<>>, Some(x) is <<x>>
\* ------------------------------------------------------------------------
None == <<>>

Some(x) == <<x>>

Option(S) == {None} \cup {Some(x) : x \in S}

unwrap_or(o, d) == IF o = None THEN d ELSE o[1]

Min(a, b) == IF a < b THEN a ELSE b

Max(a, b) == IF a < b THEN b ELSE a

RECURSIVE Flatten(_)
Flatten(ss) == IF ss = <<>> THEN <<>> ELSE Head(ss) \o Flatten(Tail(ss))

\* ------------------------------------------------------------------------
\* State
\* ------------------------------------------------------------------------
VARIABLES
    \* --- one call of BertEmbed::embed -----------------------------------
    backend,        \* which implementation of BertEmbed receives the call
    text_batch,     \* the input: text_batch[i] is the token count of text i
    batch_size,     \* Option<usize>
    mini,           \* mini[k]: what sub-batch k produced so far
    e_outcome,      \* "running", "ok", "err", "panic"
    encodings,      \* the value inside Ok(..) once e_outcome = "ok"
    \* --- one call of embed_directory or embed_file -----------------------
    entry,          \* the function called
    embeder,        \* the variant of Embeder
    adapter,        \* TRUE: Some(adapter), FALSE: None
    cpus,           \* num_cpus::get()
    exists,         \* embed_file: the path exists
    supported,      \* embed_file: extract_text can read the file's type
    dir,            \* dir[f]: the number of chunk groups of file f
    pc,             \* where the called function stands
    st,             \* st[f]: the state of item f
    running,        \* the item whose future is being polled, 0 if none
    groups,         \* groups[f][g]: what embedding group g of item f gave
    sink,           \* the calls of the adapter, in call order: the batch
                    \* given, and (for the properties) the item it is of
    collected,      \* what the collecting stream has yielded so far
    inner,          \* the value emb_directory / emb_text / emb_image returned
    ret,            \* the outcome of the call: Unset while it runs
    metadata,       \* metadata[f]: the local `metadata` of the emb_text of file f
    carried,        \* carried[f][g]: the metadata given to get_text_metadata
                    \* for chunk group g of file f, which its records carry
    \* --- one call of a function of the API, with its configuration --------
    cfg_src,        \* how the caller made the config argument
    new_args,       \* the arguments of TextEmbedConfig::new
    rust_default,   \* the value of TextEmbedConfig::default()
    config,         \* Option<&TextEmbedConfig>: the config argument
    which,          \* the model kind asked of WhichModel::from / from_pretrained_*
    loadable,       \* the model identifier resolves and its files load
    query,          \* embed_query: the queries
    fetchable,      \* embed_webpage: process_website(url) succeeds
    parts,          \* the number of text groups the content is embedded in
    chunk_size,     \* the chunk size the called function resolved
    embed_calls,    \* the calls of the backend's embed, in call order
    \* --- one L2 normalisation of a pooled row ----------------------------
    pooled,         \* the pooled row
    normalized,     \* what the backend makes of it
    \* --- one construction of a backend (its tokenizer's truncation) -------
    tokenizer_config,   \* tokenizer_config.json: max_length, model_max_length
    bert_config,        \* config.json: max_position_embeddings
    trunc,              \* the TruncationParams given to the tokenizer
    \* --- the collecting arm of emb_directory over given item results -----
    item_results,       \* what the emb_text futures returned, in the order
                        \* buffer_unordered yields them
    consumed            \* how many of them the stream has consumed

evars == <<backend, text_batch, batch_size, mini, e_outcome, encodings>>

mvars == <<metadata, carried>>

ovars == <<entry, embeder, adapter, cpus, exists, supported, dir, pc, st,
           running, groups, sink, collected, inner, ret, mvars>>

cvars == <<cfg_src, new_args, rust_default, config, which, loadable, query,
           fetchable, parts, chunk_size, embed_calls>>

tvars == <<tokenizer_config, bert_config, trunc>>

rvars == <<item_results, consumed>>

nvars == <<pooled, normalized, tvars, rvars>>

vars == <<evars, ovars, cvars, nvars>>

\* ------------------------------------------------------------------------
\* BertEmbed::embed  (bert.rs)
\* ------------------------------------------------------------------------
BertBackends ==
    {"BertEmbedder", "OrtBertEmbedder", "SparseBertEmbedder", "OrtSparseBertEmbedder"}

\* the backends whose sub-batches run on the rayon pool (par_chunks)
IsParallel(b) == b \in {"OrtBertEmbedder", "OrtSparseBertEmbedder"}

\* batch_size.unwrap_or(32)
DefaultBatchSize == 32

EffectiveBatch == unwrap_or(batch_size, DefaultBatchSize)

\* slice::chunks(n) / par_chunks(n): the number of sub-batches of a slice of len texts
NumChunks(len, n) == (len + n - 1) \div n

\* the indices of text_batch that form sub-batch k
ChunkIdx(k, len, n) == ((k - 1) * n + 1) .. Min(k * n, len)

\* PaddingStrategy::BatchLongest: every row of a sub-batch is padded to the
\* longest text of that sub-batch
BatchLongest(texts, idx) ==
    LET RECURSIVE Longest(_)
        Longest(S) == IF S = {} THEN 0
                      ELSE LET i == CHOOSE j \in S : TRUE
                           IN Max(texts[i], Longest(S \ {i}))
    IN Longest(idx)

\* How many token positions of a row of padded length padded, of which real
\* are real tokens, the forward pass attends to.
\*  OrtBertEmbedder: attention_mask = Array2::ones(input_ids.raw_dim())
\*  BertEmbedder, SparseBertEmbedder: forward(.., None): no mask is given
\*  OrtSparseBertEmbedder: input_mask = get_attention_mask_ndarray(..)
AttendedPositions(b, real, padded) ==
    IF b = "OrtSparseBertEmbedder" THEN real ELSE padded

\* How many token positions the reduction over the token axis covers.
\*  OrtBertEmbedder, BertEmbedder: pooling.pool(&ModelOutput(embeddings)) is
\*    given the model output alone, no mask
\*  the sparse backends multiply by the attention mask before the max; the
\*    masked positions contribute 0 to a max over values ln(1 + relu(x)) >= 0
PooledPositions(b, real, padded) ==
    IF b \in {"OrtSparseBertEmbedder", "SparseBertEmbedder"} THEN real ELSE padded

\* The vector embed produces for text i when it is embedded in a sub-batch
\* padded to padded tokens: it is determined by what the model and the
\* reduction are given. src is the position of the text in text_batch.
EmbedRow(b, texts, i, padded) ==
    [src      |-> i,
     len      |-> texts[i],
     attended |-> AttendedPositions(b, texts[i], padded),
     pooled   |-> PooledPositions(b, texts[i], padded)]

\* the rows of one sub-batch, in the order of its texts
EmbedMiniBatch(b, texts, k, n) ==
    LET idx  == ChunkIdx(k, Len(texts), n)
        L    == BatchLongest(texts, idx)
        lo   == (k - 1) * n
    IN [j \in 1 .. Cardinality(idx) |-> EmbedRow(b, texts, lo + j, L)]

\* The steps of a sub-batch that can fail.
FailureKinds == {"tokenize", "run", "pool", "normalize"}

\* What a failing step of a sub-batch does to the call:
\*  "panic": .unwrap() on the Err
\*  "err"  : `?` in the body of embed: embed returns the Err
\*  "drop" : `?` in the closure given to flat_map: the closure returns Err,
\*           and flat_map yields nothing for that sub-batch
\*  "never": the step has no failing path in this backend
FailureEffect(b, kind) ==
    CASE b = "BertEmbedder" ->
            (CASE kind = "tokenize"  -> "panic"
               [] kind = "run"       -> "panic"
               [] kind = "pool"      -> "err"
               [] kind = "normalize" -> "panic")
      [] b = "SparseBertEmbedder" ->
            (CASE kind = "tokenize"  -> "panic"
               [] kind = "run"       -> "panic"
               [] kind = "pool"      -> "err"
               [] kind = "normalize" -> "err")
      [] b = "OrtBertEmbedder" ->
            (CASE kind = "tokenize"  -> "drop"
               [] kind = "run"       -> "drop"
               [] kind = "pool"      -> "drop"
               [] kind = "normalize" -> "never")
      [] b = "OrtSparseBertEmbedder" ->
            (CASE kind = "tokenize"  -> "drop"
               [] kind = "run"       -> "panic"
               [] kind = "pool"      -> "drop"
               [] kind = "normalize" -> "never")

Pending == [st |-> "pending"]

Dropped == [st |-> "dropped"]

Done(rows) == [st |-> "ok", rows |-> rows]

\* the sub-batches a worker may take next: the for loop of the tensor
\* backends takes them in order, the rayon pool in any order
Takeable(k) ==
    /\ k \in DOMAIN mini
    /\ mini[k] = Pending
    /\ IsParallel(backend) \/ \A j \in 1 .. (k - 1) : mini[j] # Pending

EmbedInit ==
    /\ backend \in BertBackends
    /\ text_batch \in UNION {[1 .. n -> 1 .. MaxTokLen] : n \in 0 .. MaxTexts}
    /\ batch_size \in Option(0 .. MaxBatch)
    /\ mini = <<>>
    /\ e_outcome = "start"
    /\ encodings = <<>>

\* text_batch.chunks(batch_size) / par_chunks(batch_size): both panic on a
\* chunk size of 0
EmbedSplit ==
    /\ e_outcome = "start"
    /\ IF EffectiveBatch = 0
       THEN /\ e_outcome' = "panic"
            /\ mini' = mini
       ELSE /\ e_outcome' = "running"
            /\ mini' = [k \in 1 .. NumChunks(Len(text_batch), EffectiveBatch) |-> Pending]
    /\ UNCHANGED <<ovars, cvars, nvars, backend, text_batch, batch_size, encodings>>

\* one sub-batch is tokenized, run, pooled and normalized
MiniBatchOk(k) ==
    /\ e_outcome = "running"
    /\ Takeable(k)
    /\ mini' = [mini EXCEPT ![k] =
                    Done(EmbedMiniBatch(backend, text_batch, k, EffectiveBatch))]
    /\ UNCHANGED <<ovars, cvars, nvars, backend, text_batch, batch_size, e_outcome, encodings>>

\* one sub-batch fails at one of its steps
MiniBatchFails(k, kind) ==
    /\ e_outcome = "running"
    /\ Takeable(k)
    /\ LET eff == FailureEffect(backend, kind)
       IN /\ eff # "never"
          /\ IF eff = "drop"
             THEN /\ mini' = [mini EXCEPT ![k] = Dropped]
                  /\ e_outcome' = e_outcome
             ELSE /\ mini' = mini
                  /\ e_outcome' = eff
    /\ UNCHANGED <<ovars, cvars, nvars, backend, text_batch, batch_size, encodings>>

\* what the sub-batches that yielded something yielded, in sub-batch order:
\* .flatten().collect::<Vec<_>>() / encodings.extend(..) per iteration
Collected(m) ==
    LET RECURSIVE Cat(_)
        Cat(k) == IF k > Len(m) THEN <<>>
                  ELSE (IF m[k].st = "ok" THEN m[k].rows ELSE <<>>) \o Cat(k + 1)
    IN Cat(1)

\* every sub-batch was taken: Ok(encodings)
EmbedReturn ==
    /\ e_outcome = "running"
    /\ \A k \in DOMAIN mini : mini[k] # Pending
    /\ encodings' = Collected(mini)
    /\ e_outcome' = "ok"
    /\ UNCHANGED <<ovars, cvars, nvars, backend, text_batch, batch_size, mini>>

EmbedNext ==
    \/ EmbedSplit
    \/ \E k \in 1 .. MaxTexts : MiniBatchOk(k)
    \/ \E k \in 1 .. MaxTexts, kind \in FailureKinds : MiniBatchFails(k, kind)
    \/ EmbedReturn

\* the call has not started: the value of these variables under the other
\* specifications
EmbedIdle ==
    /\ backend = "BertEmbedder"
    /\ text_batch = <<>>
    /\ batch_size = None
    /\ mini = <<>>
    /\ e_outcome = "idle"
    /\ encodings = <<>>

\* the result of a call in which no sub-batch fails, as a function of the
\* batch size n >= 1
EmbedAll(b, texts, n) ==
    Flatten([k \in 1 .. NumChunks(Len(texts), n) |-> EmbedMiniBatch(b, texts, k, n)])

\* ------------------------------------------------------------------------
\* embed_directory, emb_directory, emb_text, embed_file  (rust/src/lib.rs)
\* embed_file of the Python binding                      (python/src/lib.rs)
\* ------------------------------------------------------------------------
Embeders == {"OpenAI", "Cohere", "Jina", "Bert", "Clip"}

Entries == {"embed_directory", "embed_file", "py_embed_file"}

\* the values of Result<Option<Vec<EmbedData>>> and what a call can end in
Unset == [tag |-> "none"]

Panicked == [tag |-> "panic"]

Err(kind) == [tag |-> "Err", kind |-> kind]

OkNone == [tag |-> "Ok(None)"]

OkSome(list) == [tag |-> "Ok(Some)", list |-> list]

IsOk(r) == r.tag \in {"Ok(None)", "Ok(Some)"}

\* the exceptions of the Python binding
PyErr(kind) == [tag |-> "PyErr", kind |-> kind]

\* EmbedData built by get_text_metadata for chunk p of chunk group g of file f
ChunkRecord(f, g, p) == [file |-> f, group |-> g, pos |-> p]

\* EmbedData built by embed_image / embed_image_batch for image f
ImageRecord(f) == [file |-> f, group |-> 0, pos |-> 0]

\* embedding_model.embed(&chunks, batch_size).unwrap() followed by
\* get_text_metadata(&encodings, &chunks, &metadata).unwrap(): one record per
\* chunk of the group, in chunk order. The variants of Embeder that reach
\* emb_text return every vector or an Err (Embeder::Bert is the tensor
\* backend, whose embed fails as a whole); get_text_metadata pairs the
\* vectors with the chunks one to one, in order.
GroupRecords(f, g) == [p \in 1 .. ChunksPerGroup |-> ChunkRecord(f, g, p)]

RECURSIVE Reverse(_)
Reverse(q) == IF q = <<>> THEN <<>> ELSE Append(Reverse(Tail(q)), Head(q))

\* (variant) the groups' records in the reverse of group order
FlattenItemReversed(gs) == Flatten(Reverse(gs))

\* chunks.par_iter().map(..).flatten().collect::<Vec<_>>(): the groups'
\* records in group order, whatever order the pool embedded them in
FlattenItem(gs) == Flatten(gs)

\* the items buffer_unordered holds
InFlightStates == {"Created", "AwaitMetadata", "Embedding", "InSink"}

InFlight(f) == st[f] \in InFlightStates

NumInFlight == Cardinality({f \in DOMAIN st : InFlight(f)})

\* (variant) the stream is buffered without a bound
HasFreeSlotUnbounded == TRUE

\* (variant) the buffer holds one future fewer than num_cpus
HasFreeSlotOneLess == NumInFlight + 1 < cpus

\* buffer_unordered(num_cpus::get()): a future is taken from the stream only
\* while fewer than that many are in progress
HasFreeSlot == NumInFlight < cpus

\* buffer_unordered fills its free slots before it polls a future
BufferFilled ==
    \/ entry # "embed_directory"
    \/ ~ HasFreeSlot
    \/ \A f \in DOMAIN st : st[f] # "Queued"

\* (variant) a record is kept in the list for an item without records
StreamCollectMarksMissing(acc, result) ==
    IF result.tag = "Ok(Some)" THEN acc \o result.list
    ELSE Append(acc, [file |-> 0, group |-> 0, pos |-> 0])

\* (variant) each item's records replace the list instead of extending it
StreamCollectOverwrites(acc, result) ==
    IF result.tag = "Ok(Some)" THEN result.list ELSE acc

\* filter_map(|result| async move { result.ok().and_then(|e| e) }) followed
\* by flat_map(|v| futures::stream::iter(v)): what one item's result adds to
\* the collected list
StreamCollect(acc, result) ==
    IF result.tag = "Ok(Some)" THEN acc \o result.list ELSE acc

\* the arguments of a call, over directories of up to nfiles files of up to
\* ngroups chunk groups
OrchInitOf(nfiles, ngroups) ==
    /\ entry \in Entries
    /\ embeder \in Embeders
    /\ adapter \in BOOLEAN
    /\ IF entry = "embed_directory"
       THEN /\ cpus \in 1 .. MaxCpus
            /\ exists = TRUE
            /\ supported = TRUE
            /\ dir \in UNION {[1 .. n -> 0 .. ngroups] : n \in 0 .. nfiles}
       ELSE /\ cpus = 1
            /\ exists \in BOOLEAN
            /\ supported \in BOOLEAN
            /\ dir \in [1 .. 1 -> 0 .. ngroups]
    /\ pc = "start"
    /\ st = [f \in DOMAIN dir |-> "Unseen"]
    /\ running = 0
    /\ groups = [f \in DOMAIN dir |-> <<>>]
    /\ sink = <<>>
    /\ collected = <<>>
    /\ inner = Unset
    /\ ret = Unset
    /\ metadata = [f \in DOMAIN dir |-> Unset]
    /\ carried = [f \in DOMAIN dir |-> <<>>]

OrchInit == OrchInitOf(MaxFiles, MaxGroups)

OrchIdle ==
    /\ entry = "none"
    /\ embeder = "Bert"
    /\ adapter = FALSE
    /\ cpus = 1
    /\ exists = TRUE
    /\ supported = TRUE
    /\ dir = <<>>
    /\ pc = "idle"
    /\ st = <<>>
    /\ running = 0
    /\ groups = <<>>
    /\ sink = <<>>
    /\ collected = <<>>
    /\ inner = Unset
    /\ ret = Unset
    /\ metadata = <<>>
    /\ carried = <<>>

\* a panic unwinds the call: nothing of it runs afterwards
Panic ==
    /\ pc' = "panicked"
    /\ ret' = Panicked
    /\ running' = 0

\* --- emb_directory ------------------------------------------------------
\* file_parser.get_text_files(&directory, extensions).await?
Discover ==
    /\ entry = "embed_directory" /\ embeder # "Clip" /\ pc = "start"
    /\ \/ /\ st' = [f \in DOMAIN st |-> "Discovered"]
          /\ pc' = "discovered"
          /\ inner' = inner
       \/ /\ inner' = Err("Discovery")
          /\ pc' = "returned"
          /\ st' = st
    /\ UNCHANGED <<evars, cvars, nvars, mvars, entry, embeder, adapter, cpus, exists, supported, dir,
                   running, groups, sink, collected, ret>>

\* the files become the stream of emb_text futures
Schedule ==
    /\ entry = "embed_directory" /\ pc = "discovered"
    /\ st' = [f \in DOMAIN st |-> "Queued"]
    /\ pc' = "streaming"
    /\ UNCHANGED <<evars, cvars, nvars, mvars, entry, embeder, adapter, cpus, exists, supported, dir,
                   running, groups, sink, collected, inner, ret>>

\* (variant) the stream yields a file again after its future completed
AdmitAgain(f) ==
    /\ entry = "embed_directory" /\ pc = "streaming" /\ running = 0
    /\ st[f] \in {"Queued", "Completed"}
    /\ HasFreeSlot
    /\ st' = [st EXCEPT ![f] = "Created"]
    /\ UNCHANGED <<evars, cvars, nvars, mvars, entry, embeder, adapter, cpus, exists, supported, dir, pc,
                   running, groups, sink, collected, inner, ret>>

\* buffer_unordered takes the next future of the stream
Admit(f) ==
    /\ entry = "embed_directory" /\ pc = "streaming" /\ running = 0
    /\ st[f] = "Queued"
    /\ \A h \in 1 .. (f - 1) : st[h] # "Queued"
    /\ HasFreeSlot
    /\ st' = [st EXCEPT ![f] = "Created"]
    /\ UNCHANGED <<evars, cvars, nvars, mvars, entry, embeder, adapter, cpus, exists, supported, dir, pc,
                   running, groups, sink, collected, inner, ret>>

\* --- emb_text -------------------------------------------------------------
\* (variant) the futures are polled by several threads: a poll may begin
\* while another one runs
PollingConcurrently == pc \in {"streaming", "emb_text"} /\ BufferFilled

\* the one task that drives the stream polls one future at a time, and a
\* poll runs to the future's next suspension point or to its end
Polling == pc \in {"streaming", "emb_text"} /\ running = 0 /\ BufferFilled

\* the first poll: extract_text(..).unwrap(), split_into_chunks, up to
\* get_metadata(file).await
PollStart(f) ==
    /\ Polling /\ st[f] = "Created"
    /\ entry = "embed_directory" \/ (exists /\ supported)
    /\ st' = [st EXCEPT ![f] = "AwaitMetadata"]
    /\ UNCHANGED <<evars, cvars, nvars, mvars, entry, embeder, adapter, cpus, exists, supported, dir, pc,
                   running, groups, sink, collected, inner, ret>>

\* extract_text returns an Err (the file is missing, or of a type it does
\* not read, or unreadable): .unwrap() panics
ExtractPanics(f) ==
    /\ Polling /\ st[f] = "Created"
    /\ entry = "embed_directory" \/ ~ (exists /\ supported)
    /\ st' = [st EXCEPT ![f] = "Failed"]
    /\ Panic
    /\ UNCHANGED <<evars, cvars, nvars, mvars, entry, embeder, adapter, cpus, exists, supported, dir,
                   groups, sink, collected, inner>>

\* Option<HashMap<String, String>>: None
NoMetadata == [tag |-> "None"]

\* the value of TextLoader::get_metadata(file).await.ok() for file f: Some of
\* the metadata of that file, or None when it cannot be read
FileMetadata(f) == [tag |-> "get_metadata", file |-> f]

\* (variant) one `metadata` is shared by the futures: the first one set
MetadataArgShared(f) ==
    metadata[CHOOSE h \in DOMAIN metadata :
                /\ metadata[h] # Unset
                /\ \A j \in 1 .. (h - 1) : metadata[j] = Unset]

\* &metadata in the closure given to par_iter().map(..): the local of this
\* call of emb_text
MetadataArg(f) == metadata[f]

\* let metadata = TextLoader::get_metadata(file).await.ok() is ready: the
\* poll goes on to chunks.par_iter()
Resume(f) ==
    /\ Polling /\ st[f] = "AwaitMetadata"
    /\ st' = [st EXCEPT ![f] = "Embedding"]
    /\ running' = f
    /\ groups' = [groups EXCEPT ![f] = [g \in 1 .. dir[f] |-> Pending]]
    /\ metadata' = [metadata EXCEPT ![f] = FileMetadata(f)]
    /\ carried' = [carried EXCEPT ![f] = [g \in 1 .. dir[f] |-> Unset]]
    /\ UNCHANGED <<evars, cvars, nvars, entry, embeder, adapter, cpus, exists, supported, dir, pc,
                   sink, collected, inner, ret>>

\* a worker of the pool embeds one chunk group
EmbedGroupOk(f, g) ==
    /\ running = f /\ st[f] = "Embedding"
    /\ g \in DOMAIN groups[f] /\ groups[f][g] = Pending
    /\ groups' = [groups EXCEPT ![f][g] = Done(GroupRecords(f, g))]
    /\ carried' = [carried EXCEPT ![f][g] = MetadataArg(f)]
    /\ UNCHANGED <<evars, cvars, nvars, metadata, entry, embeder, adapter, cpus, exists, supported, dir, pc,
                   st, running, sink, collected, inner, ret>>

\* (variant) the Err of embed is handled: the item fails, the run goes on
EmbedGroupFailsSkips(f, g) ==
    /\ running = f /\ st[f] = "Embedding"
    /\ g \in DOMAIN groups[f] /\ groups[f][g] = Pending
    /\ st' = [st EXCEPT ![f] = "Failed"]
    /\ running' = 0
    /\ UNCHANGED <<evars, cvars, nvars, mvars, entry, embeder, adapter, cpus, exists, supported, dir,
                   pc, groups, sink, collected, inner, ret>>

\* (variant) the failure undoes what the adapter was given
EmbedGroupFailsRollsBack(f, g) ==
    /\ running = f /\ st[f] = "Embedding"
    /\ g \in DOMAIN groups[f] /\ groups[f][g] = Pending
    /\ st' = [st EXCEPT ![f] = "Failed"]
    /\ Panic
    /\ sink' = <<>>
    /\ UNCHANGED <<evars, cvars, nvars, mvars, entry, embeder, adapter, cpus, exists, supported, dir,
                   groups, collected, inner>>

\* embedding_model.embed(..) returns an Err: .unwrap() panics
EmbedGroupFails(f, g) ==
    /\ running = f /\ st[f] = "Embedding"
    /\ g \in DOMAIN groups[f] /\ groups[f][g] = Pending
    /\ st' = [st EXCEPT ![f] = "Failed"]
    /\ Panic
    /\ UNCHANGED <<evars, cvars, nvars, mvars, entry, embeder, adapter, cpus, exists, supported, dir,
                   groups, sink, collected, inner>>

\* let embeddings = chunks.par_iter().map(..).flatten().collect::<Vec<_>>()
ItemEmbeddings(f) == FlattenItem([g \in DOMAIN groups[f] |-> groups[f][g].rows])

\* the value emb_text returns: Ok(None) after adapter(embeddings), else
\* Ok(Some(embeddings))
ItemResult(f) == IF adapter THEN OkNone ELSE OkSome(ItemEmbeddings(f))

\* every group is embedded and there is an adapter: adapter(embeddings) is
\* entered, inside the poll
SinkCall(f) ==
    /\ running = f /\ st[f] = "Embedding" /\ adapter
    /\ \A g \in DOMAIN groups[f] : groups[f][g] # Pending
    /\ st' = [st EXCEPT ![f] = "InSink"]
    /\ UNCHANGED <<evars, cvars, nvars, mvars, entry, embeder, adapter, cpus, exists, supported, dir, pc,
                   running, groups, sink, collected, inner, ret>>

\* adapter(embeddings) has returned, or there is no adapter and every group
\* is embedded: emb_text returns Ok(None) or Ok(Some(embeddings)); in a
\* directory run the stream consumes the result
ItemReturn(f) ==
    /\ running = f
    /\ IF adapter THEN st[f] = "InSink" ELSE st[f] = "Embedding"
    /\ \A g \in DOMAIN groups[f] : groups[f][g] # Pending
    /\ st' = [st EXCEPT ![f] = "Completed"]
    /\ running' = 0
    /\ sink' = IF adapter
               THEN Append(sink, [item |-> f, batch |-> ItemEmbeddings(f)])
               ELSE sink
    /\ IF entry = "embed_directory"
       THEN /\ collected' = IF adapter THEN collected
                            ELSE StreamCollect(collected, ItemResult(f))
            /\ UNCHANGED <<inner, pc>>
       ELSE /\ inner' = ItemResult(f)
            /\ pc' = "returned"
            /\ collected' = collected
    /\ UNCHANGED <<evars, cvars, nvars, mvars, entry, embeder, adapter, cpus, exists, supported, dir,
                   groups, ret>>

\* the stream is exhausted: Ok(None) in the adapter arm, Ok(Some(embeddings))
\* in the other
DirectoryReturn ==
    /\ entry = "embed_directory" /\ pc = "streaming" /\ running = 0
    /\ \A f \in DOMAIN st : st[f] \in {"Completed", "Failed"}
    /\ inner' = IF adapter THEN OkNone ELSE OkSome(collected)
    /\ pc' = "returned"
    /\ UNCHANGED <<evars, cvars, nvars, mvars, entry, embeder, adapter, cpus, exists, supported, dir, st,
                   running, groups, sink, collected, ret>>

\* --- emb_image_directory --------------------------------------------------
\* get_image_paths(&directory).unwrap(), embed_image_batch(..).unwrap(),
\* Ok(Some(embeddings)): the adapter is not a parameter
ImageDirectory ==
    /\ entry = "embed_directory" /\ embeder = "Clip" /\ pc = "start"
    /\ \/ /\ st' = [f \in DOMAIN st |-> "Completed"]
          /\ inner' = OkSome([f \in DOMAIN dir |-> ImageRecord(f)])
          /\ pc' = "returned"
          /\ UNCHANGED <<running, ret>>
       \/ /\ Panic
          /\ UNCHANGED <<st, inner>>
    /\ UNCHANGED <<evars, cvars, nvars, mvars, entry, embeder, adapter, cpus, exists, supported, dir,
                   groups, sink, collected>>

\* --- embed_directory --------------------------------------------------------
\* match embeder { .. }.unwrap(); Ok(embeddings)
DirectoryUnwrap ==
    /\ entry = "embed_directory" /\ pc = "returned"
    /\ IF inner.tag = "Err"
       THEN Panic
       ELSE /\ ret' = inner
            /\ pc' = "done"
            /\ running' = running
    /\ UNCHANGED <<evars, cvars, nvars, mvars, entry, embeder, adapter, cpus, exists, supported, dir, st,
                   groups, sink, collected, inner>>

\* --- embed_file -----------------------------------------------------------
\* (variant) the binding calls embed_file without looking at the path
PyCheckExistsSkipped ==
    /\ entry = "py_embed_file" /\ pc = "start"
    /\ pc' = "call"
    /\ UNCHANGED <<evars, cvars, nvars, mvars, entry, embeder, adapter, cpus, exists, supported, dir, st,
                   running, groups, sink, collected, inner, ret>>

\* python: if !Path::new(file_name).exists() { return Err(PyFileNotFoundError) }
PyCheckExists ==
    /\ entry = "py_embed_file" /\ pc = "start"
    /\ IF exists
       THEN /\ pc' = "call"
            /\ ret' = ret
       ELSE /\ pc' = "done"
            /\ ret' = PyErr("FileNotFoundError")
    /\ UNCHANGED <<evars, cvars, nvars, mvars, entry, embeder, adapter, cpus, exists, supported, dir, st,
                   running, groups, sink, collected, inner>>

FileCalled ==
    \/ entry = "embed_file" /\ pc = "start"
    \/ entry = "py_embed_file" /\ pc = "call"

\* match embeder: the text variants call emb_text(file_name, ..)
FileEmbText ==
    /\ FileCalled /\ embeder # "Clip"
    /\ st' = [f \in DOMAIN st |-> "Created"]
    /\ pc' = "emb_text"
    /\ UNCHANGED <<evars, cvars, nvars, mvars, entry, embeder, adapter, cpus, exists, supported, dir,
                   running, groups, sink, collected, inner, ret>>

\* Embeder::Clip(embeder) => Some(vec![emb_image(file_name, embeder).unwrap()])
\* emb_image: fs::canonicalize(&image_path)? is an Err for a missing path,
\* embed_image(..).unwrap() panics when the image cannot be embedded
FileEmbImage ==
    /\ FileCalled /\ embeder = "Clip"
    /\ \/ /\ exists
          /\ st' = [f \in DOMAIN st |-> "Completed"]
          /\ inner' = OkSome(<<ImageRecord(1)>>)
          /\ pc' = "returned"
          /\ UNCHANGED <<running, ret>>
       \/ /\ st' = [f \in DOMAIN st |-> "Failed"]
          /\ Panic
          /\ inner' = inner
    /\ UNCHANGED <<evars, cvars, nvars, mvars, entry, embeder, adapter, cpus, exists, supported, dir,
                   groups, sink, collected>>

\* python: what the binding makes of the value of embed_anything::embed_file
PyMapResult(r) ==
    CASE r = Err("FileNotFound") -> PyErr("FileNotFoundError")
      [] r.tag = "Err" /\ r # Err("FileNotFound") -> PyErr("ValueError")
      [] OTHER -> r

\* Ok(embeddings), and in the binding the map_err of the result
FileReturn ==
    /\ entry \in {"embed_file", "py_embed_file"} /\ pc = "returned"
    /\ ret' = IF entry = "py_embed_file" THEN PyMapResult(inner) ELSE inner
    /\ pc' = "done"
    /\ UNCHANGED <<evars, cvars, nvars, mvars, entry, embeder, adapter, cpus, exists, supported, dir, st,
                   running, groups, sink, collected, inner>>

Next ==
    \/ Discover
    \/ Schedule
    \/ \E f \in DOMAIN st : Admit(f)
    \/ \E f \in DOMAIN st : PollStart(f)
    \/ \E f \in DOMAIN st : ExtractPanics(f)
    \/ \E f \in DOMAIN st : Resume(f)
    \/ \E f \in DOMAIN st, g \in 1 .. MaxGroups : EmbedGroupOk(f, g)
    \/ \E f \in DOMAIN st, g \in 1 .. MaxGroups : EmbedGroupFails(f, g)
    \/ \E f \in DOMAIN st : SinkCall(f)
    \/ \E f \in DOMAIN st : ItemReturn(f)
    \/ DirectoryReturn
    \/ ImageDirectory
    \/ DirectoryUnwrap
    \/ PyCheckExists
    \/ FileEmbText
    \/ FileEmbImage
    \/ FileReturn

\* ------------------------------------------------------------------------
\* TextEmbedConfig  (python/src/config.rs, rust/examples/audio.rs)
\* ------------------------------------------------------------------------
\* largest chunk_size and buffer_size a caller provides
MaxSize == 2

\* config.chunk_size.unwrap_or(256), chunk_size.unwrap_or(256)
DefaultChunkSize == 256

\* buffer_size.unwrap_or(100)
DefaultBufferSize == 100

\* SplittingStrategy
Sentence == "Sentence"

Semantic == "Semantic"

\* the strings a caller gives as splitting_strategy
StrategyNames == {"sentence", "semantic", "recursive"}

\* the value of embed_anything::config::TextEmbedConfig::default(): its
\* Option fields hold the documented defaults or nothing
RustDefaults ==
    {[chunk_size |-> None, batch_size |-> None, buffer_size |-> None,
      splitting_strategy |-> None, semantic_encoder |-> None],
     [chunk_size |-> Some(DefaultChunkSize), batch_size |-> Some(DefaultBatchSize),
      buffer_size |-> Some(DefaultBufferSize),
      splitting_strategy |-> None, semantic_encoder |-> None]}

\* the builder methods of embed_anything::config::TextEmbedConfig
with_chunk_size(c, n) == [c EXCEPT !.chunk_size = Some(n)]

with_batch_size(c, n) == [c EXCEPT !.batch_size = Some(n)]

with_buffer_size(c, n) == [c EXCEPT !.buffer_size = Some(n)]

with_splitting_strategy(c, strategy) == [c EXCEPT !.splitting_strategy = Some(strategy)]

with_semantic_encoder(c, encoder) == [c EXCEPT !.semantic_encoder = encoder]

\* the arguments of TextEmbedConfig::new (overlap_ratio, use_ocr and
\* tesseract_path are passed through and not modelled)
NewArgs ==
    [chunk_size         : Option(1 .. MaxSize),
     batch_size         : Option(0 .. MaxBatch),
     buffer_size        : Option({MaxSize}),
     splitting_strategy : Option(StrategyNames),
     semantic_encoder   : Option({"Jina"})]

NoArgs ==
    [chunk_size |-> None, batch_size |-> None, buffer_size |-> None,
     splitting_strategy |-> None, semantic_encoder |-> None]

\* let strategy = match splitting_strategy { .. }
StrategyOf(name) ==
    CASE name = Some("sentence") -> Some(Sentence)
      [] name = Some("semantic") -> Some(Semantic)
      [] OTHER -> None

\* (variant) new accepts every combination of arguments
NewPanicsNever(a) == FALSE

\* if matches!(strategy, Some(SplittingStrategy::Semantic))
\*    && semantic_encoder.is_none() { panic!(..) }
NewPanics(a) ==
    /\ StrategyOf(a.splitting_strategy) = Some(Semantic)
    /\ a.semantic_encoder = None

\* chunk_size.unwrap_or(256)
NewChunkSize(a) == unwrap_or(a.chunk_size, DefaultChunkSize)

\* Self { inner: TextEmbedConfig::default().with_chunk_size(..) .. }
NewConfig(a) ==
    with_semantic_encoder(
      with_splitting_strategy(
        with_buffer_size(
          with_batch_size(
            with_chunk_size(rust_default, NewChunkSize(a)),
            unwrap_or(a.batch_size, DefaultBatchSize)),
          unwrap_or(a.buffer_size, DefaultBufferSize)),
        unwrap_or(StrategyOf(a.splitting_strategy), Sentence)),
      a.semantic_encoder)

\* audio.rs: TextEmbedConfig::default().with_chunk_size(256, Some(0.3))
\*   .with_batch_size(32).with_splitting_strategy(SplittingStrategy::Sentence)
\*   .with_semantic_encoder(Some(Arc::clone(&semantic_encoder)))
AudioExampleConfig ==
    with_semantic_encoder(
      with_splitting_strategy(
        with_batch_size(
          with_chunk_size(rust_default, DefaultChunkSize),
          DefaultBatchSize),
        Sentence),
      Some("Jina"))

\* ------------------------------------------------------------------------
\* One call of a function of the API with its config argument
\*   embed_query, embed_file, embed_directory, embed_webpage (rust/src/lib.rs)
\*   embed_query, EmbeddingModel, WhichModel               (python/src/lib.rs)
\* ------------------------------------------------------------------------
\* longest list of queries
MaxQuery == 2

ConfigEntries ==
    {"embed_query", "py_embed_query", "embed_file", "embed_directory", "embed_webpage"}

ConstructEntries == {"WhichModel::from", "from_pretrained_hf", "from_pretrained_cloud"}

\* the strings given to WhichModel::from
ModelNames ==
    {"openai", "OpenAI", "cohere", "Cohere", "bert", "Bert", "clip", "Clip",
     "jina", "Jina", "gpt"}

\* the variables of a call of embed_directory / embed_file that a call of
\* the API with its config does not use
orest == <<cpus, exists, supported, dir, st, running, groups, collected, inner, mvars>>

OrchRestIdle ==
    /\ cpus = 1
    /\ exists = TRUE
    /\ supported = TRUE
    /\ dir = <<>>
    /\ st = <<>>
    /\ running = 0
    /\ groups = <<>>
    /\ collected = <<>>
    /\ inner = Unset
    /\ metadata = <<>>
    /\ carried = <<>>

ApiInit ==
    /\ entry \in ConfigEntries \cup ConstructEntries
    /\ rust_default \in RustDefaults
    /\ IF entry \in ConstructEntries
       THEN /\ which \in (IF entry = "WhichModel::from" THEN ModelNames ELSE Embeders)
            /\ loadable \in BOOLEAN
            /\ cfg_src = "none"
            /\ new_args = NoArgs
            /\ embeder = "Bert"
            /\ adapter = FALSE
            /\ query = <<>>
            /\ fetchable = TRUE
            /\ parts = 0
       ELSE /\ which = "Bert"
            /\ loadable = TRUE
            /\ cfg_src \in {"none", "new", "builder"}
            /\ new_args \in (IF cfg_src = "new" THEN NewArgs ELSE {NoArgs})
            /\ embeder \in Embeders
            /\ adapter \in (IF entry \in {"embed_query", "py_embed_query"}
                            THEN {FALSE} ELSE BOOLEAN)
            /\ query \in (IF entry \in {"embed_query", "py_embed_query"}
                          THEN UNION {[1 .. n -> 1 .. MaxTokLen] : n \in 0 .. MaxQuery}
                          ELSE {<<>>})
            /\ fetchable \in (IF entry = "embed_webpage" THEN BOOLEAN ELSE {TRUE})
            /\ parts \in (IF entry \in {"embed_query", "py_embed_query"}
                          THEN {0} ELSE 0 .. MaxGroups)
    /\ config = None
    /\ chunk_size = None
    /\ embed_calls = <<>>
    /\ pc = "configure"
    /\ sink = <<>>
    /\ ret = Unset
    /\ OrchRestIdle

\* no call of the API is in progress: the value of these variables under the
\* other specifications
ApiIdle ==
    /\ cfg_src = "none"
    /\ new_args = NoArgs
    /\ rust_default = CHOOSE d \in RustDefaults : d.chunk_size = None
    /\ config = None
    /\ which = "Bert"
    /\ loadable = TRUE
    /\ query = <<>>
    /\ fetchable = TRUE
    /\ parts = 0
    /\ chunk_size = None
    /\ embed_calls = <<>>

ApiPanic ==
    /\ pc' = "panicked"
    /\ ret' = Panicked

\* --- the config argument ----------------------------------------------------
\* the caller passes None
ConfigOmitted ==
    /\ pc = "configure" /\ entry \in ConfigEntries /\ cfg_src = "none"
    /\ config' = None
    /\ pc' = "enter"
    /\ UNCHANGED <<evars, nvars, orest, entry, embeder, adapter, sink, ret,
                   cfg_src, new_args, rust_default, which, loadable, query,
                   fetchable, parts, chunk_size, embed_calls>>

\* python: TextEmbedConfig(chunk_size, batch_size, ..)
TextEmbedConfig_new ==
    /\ pc = "configure" /\ entry \in ConfigEntries /\ cfg_src = "new"
    /\ IF NewPanics(new_args)
       THEN /\ ApiPanic
            /\ config' = config
       ELSE /\ config' = Some(NewConfig(new_args))
            /\ pc' = "enter"
            /\ ret' = ret
    /\ UNCHANGED <<evars, nvars, orest, entry, embeder, adapter, sink,
                   cfg_src, new_args, rust_default, which, loadable, query,
                   fetchable, parts, chunk_size, embed_calls>>

\* rust: the builder chain of examples/audio.rs
ConfigBuilderChain ==
    /\ pc = "configure" /\ entry \in ConfigEntries /\ cfg_src = "builder"
    /\ config' = Some(AudioExampleConfig)
    /\ pc' = "enter"
    /\ UNCHANGED <<evars, nvars, orest, entry, embeder, adapter, sink, ret,
                   cfg_src, new_args, rust_default, which, loadable, query,
                   fetchable, parts, chunk_size, embed_calls>>

\* --- what the entry points have in common ----------------------------------
\* let binding = TextEmbedConfig::default();
\* let config = config.unwrap_or(&binding);
ResolveConfig(c) == unwrap_or(c, rust_default)

\* (variant) config.chunk_size.unwrap_or(..) with another fallback
ResolveChunkSizeOther(c) == unwrap_or(ResolveConfig(c).chunk_size, DefaultBufferSize)

\* let chunk_size = config.chunk_size.unwrap_or(256);
ResolveChunkSize(c) == unwrap_or(ResolveConfig(c).chunk_size, DefaultChunkSize)

\* a call of the backend's embed: the texts given and the batch size given
EmbedCall(texts, bs) == [texts |-> texts, batch_size |-> bs]

\* what a call of embed can end in. With Embeder::Bert a batch size of
\* Some(0) reaches text_batch.chunks(0), which panics (EmbedSplit).
EmbedOutcomes(e, bs) ==
    IF e = "Bert" /\ bs = Some(0) THEN {"panic"} ELSE {"ok", "err"}

\* the vector embed returns for the i-th text of texts
Encoding(texts, i) == [src |-> i, text |-> texts[i]]

\* Ok(encodings) of embed(texts, ..): one vector per text, in order
Encodings(texts) == [i \in DOMAIN texts |-> Encoding(texts, i)]

\* get_text_metadata(&encodings, &texts, &metadata): the EmbedData of each
\* vector with its text and the metadata given
get_text_metadata(encs, texts, md) ==
    [i \in DOMAIN encs |->
        [embedding |-> encs[i], text |-> texts[i], metadata |-> md]]

\* Ok(Vec<EmbedData>): the value of embed_query
OkVec(list) == [tag |-> "Ok(Vec)", list |-> list]

\* --- embed_query ------------------------------------------------------------
\* (variant) one call of embed per query
QueryBatchesEach(q) == [i \in DOMAIN q |-> <<q[i]>>]

\* embeder.embed(&query, batch_size): the lists of texts embed is called with
QueryBatches(q) == <<q>>

\* python: .map_err(|e| PyValueError::new_err(e.to_string()))
PyQueryResult(r) == IF r.tag = "Err" THEN PyErr("ValueError") ELSE r

embed_query ==
    /\ pc = "enter" /\ entry \in {"embed_query", "py_embed_query"}
    /\ LET bs      == ResolveConfig(config).batch_size
           batches == QueryBatches(query)
           result(r) == IF entry = "py_embed_query" THEN PyQueryResult(r) ELSE r
       IN /\ chunk_size' = Some(ResolveChunkSize(config))
          /\ embed_calls' = embed_calls \o [k \in DOMAIN batches |-> EmbedCall(batches[k], bs)]
          /\ \E o \in EmbedOutcomes(embeder, bs) :
                \/ /\ o = "ok"
                   /\ ret' = result(OkVec(get_text_metadata(Encodings(query), query,
                                                            NoMetadata)))
                   /\ pc' = "done"
                \/ /\ o = "err"
                   /\ ret' = result(Err("BackendCall"))
                   /\ pc' = "done"
                \/ /\ o = "panic"
                   /\ ApiPanic
    /\ UNCHANGED <<evars, nvars, orest, entry, embeder, adapter, sink,
                   cfg_src, new_args, rust_default, config, which, loadable,
                   query, fetchable, parts>>

\* --- the text of one source, embedded group by group ------------------------
\* the calls of embed for the first n chunk groups
GroupCalls(n, bs) == [g \in 1 .. n |-> EmbedCall(g, bs)]

\* the records of all the chunk groups
PartsRecords == Flatten([g \in 1 .. parts |-> GroupRecords(1, g)])

\* the n-th call of embed is the first that does not return Ok
FirstFailure(n, bs) ==
    /\ n \in 1 .. parts
    /\ n > 1 => EmbedOutcomes(embeder, bs) # {"panic"}

\* every call of embed returns Ok
AllOk(bs) == parts = 0 \/ "ok" \in EmbedOutcomes(embeder, bs)

\* emb_text(file, embedding_model, chunk_size, batch_size, adapter)
EmbText(bs) ==
    \/ /\ AllOk(bs)
       /\ embed_calls' = embed_calls \o GroupCalls(parts, bs)
       /\ IF adapter
          THEN /\ sink' = Append(sink, [item |-> 1, batch |-> PartsRecords])
               /\ ret' = OkNone
          ELSE /\ sink' = sink
               /\ ret' = OkSome(PartsRecords)
       /\ pc' = "done"
    \/ \E n \in 0 .. parts :
          /\ n = 0 \/ FirstFailure(n, bs)
          /\ embed_calls' = embed_calls \o GroupCalls(n, bs)
          /\ sink' = sink
          /\ ApiPanic

\* --- embed_file ---------------------------------------------------------------
embed_file ==
    /\ pc = "enter" /\ entry = "embed_file"
    /\ chunk_size' = Some(ResolveChunkSize(config))
    /\ IF embeder = "Clip"
       THEN /\ \/ ret' = OkSome(<<ImageRecord(1)>>) /\ pc' = "done"
               \/ ApiPanic
            /\ UNCHANGED <<embed_calls, sink>>
       ELSE EmbText(IF embeder \in {"OpenAI", "Cohere"} THEN None
                    ELSE ResolveConfig(config).batch_size)
    /\ UNCHANGED <<evars, nvars, orest, entry, embeder, adapter,
                   cfg_src, new_args, rust_default, config, which, loadable,
                   query, fetchable, parts>>

\* --- embed_directory (of a directory that holds one file) -------------------
embed_directory ==
    /\ pc = "enter" /\ entry = "embed_directory"
    /\ chunk_size' = Some(ResolveChunkSize(config))
    /\ IF embeder = "Clip"
       THEN /\ \/ ret' = OkSome(<<ImageRecord(1)>>) /\ pc' = "done"
               \/ ApiPanic
            /\ UNCHANGED <<embed_calls, sink>>
       ELSE EmbText(ResolveConfig(config).batch_size)
    /\ UNCHANGED <<evars, nvars, orest, entry, embeder, adapter,
                   cfg_src, new_args, rust_default, config, which, loadable,
                   query, fetchable, parts>>

\* --- embed_webpage --------------------------------------------------------------
\* webpage.embed_webpage(embeder, chunk_size, batch_size): the calls of embed
\* it made, and Ok(records) or the Err of the call that failed
WebpageEmbed(bs) ==
    \/ /\ AllOk(bs)
       /\ embed_calls' = embed_calls \o GroupCalls(parts, bs)
       /\ IF adapter
          THEN /\ sink' = Append(sink, [item |-> 1, batch |-> PartsRecords])
               /\ ret' = OkNone
          ELSE /\ sink' = sink
               /\ ret' = OkSome(PartsRecords)
       /\ pc' = "done"
    \/ \E n \in 1 .. parts :
          /\ FirstFailure(n, bs)
          /\ embed_calls' = embed_calls \o GroupCalls(n, bs)
          /\ sink' = sink
          /\ IF "panic" \in EmbedOutcomes(embeder, bs)
             THEN ApiPanic
             ELSE ret' = Err("BackendCall") /\ pc' = "done"

\* let webpage = website_processor.process_website(url.as_ref())?; then
\* if let Embeder::Clip(_) = embeder { return Err(anyhow!(..)) }
embed_webpage ==
    /\ pc = "enter" /\ entry = "embed_webpage"
    /\ IF ~ fetchable
       THEN /\ ret' = Err("WebsiteProcessing")
            /\ pc' = "done"
            /\ UNCHANGED <<chunk_size, embed_calls, sink>>
       ELSE IF embeder = "Clip"
       THEN /\ ret' = Err("InvalidModelSelection")
            /\ pc' = "done"
            /\ UNCHANGED <<chunk_size, embed_calls, sink>>
       ELSE /\ chunk_size' = Some(ResolveChunkSize(config))
            /\ WebpageEmbed(ResolveConfig(config).batch_size)
    /\ UNCHANGED <<evars, nvars, orest, entry, embeder, adapter,
                   cfg_src, new_args, rust_default, config, which, loadable,
                   query, fetchable, parts>>

\* --- construction of a model (python) ---------------------------------------
\* the value of from_pretrained_hf / from_pretrained_cloud: Ok(EmbeddingModel)
OkModel(kind) == [tag |-> "Ok(EmbeddingModel)", kind |-> kind]

\* a value of the enum WhichModel
WhichModel(kind) == [tag |-> "WhichModel", kind |-> kind]

\* impl From<&str> for WhichModel, impl From<String> for WhichModel
WhichModel_from ==
    /\ pc = "configure" /\ entry = "WhichModel::from"
    /\ CASE which \in {"openai", "OpenAI"} -> ret' = WhichModel("OpenAI") /\ pc' = "done"
         [] which \in {"cohere", "Cohere"} -> ret' = WhichModel("Cohere") /\ pc' = "done"
         [] which \in {"bert", "Bert"}     -> ret' = WhichModel("Bert") /\ pc' = "done"
         [] which \in {"clip", "Clip"}     -> ret' = WhichModel("Clip") /\ pc' = "done"
         [] which \in {"jina", "Jina"}     -> ret' = WhichModel("Jina") /\ pc' = "done"
         [] OTHER -> ApiPanic
    /\ UNCHANGED <<evars, nvars, orest, cvars, entry, embeder, adapter, sink>>

\* BertEmbeder::new(..).unwrap(), ClipEmbeder::new(..).map_err(..)?,
\* JinaEmbeder::new(..).unwrap(), _ => panic!("Invalid model")
from_pretrained_hf ==
    /\ pc = "configure" /\ entry = "from_pretrained_hf"
    /\ CASE which \in {"Bert", "Jina"} ->
               IF loadable THEN ret' = OkModel(which) /\ pc' = "done"
               ELSE ApiPanic
         [] which = "Clip" ->
               /\ ret' = IF loadable THEN OkModel(which) ELSE PyErr("ValueError")
               /\ pc' = "done"
         [] OTHER -> ApiPanic
    /\ UNCHANGED <<evars, nvars, orest, cvars, entry, embeder, adapter, sink>>

\* OpenAIEmbeder::new(..), CohereEmbeder::new(..) return the embedder, not a
\* Result; _ => panic!("Invalid model")
from_pretrained_cloud ==
    /\ pc = "configure" /\ entry = "from_pretrained_cloud"
    /\ IF which \in {"OpenAI", "Cohere"}
       THEN ret' = OkModel(which) /\ pc' = "done"
       ELSE ApiPanic
    /\ UNCHANGED <<evars, nvars, orest, cvars, entry, embeder, adapter, sink>>

ApiNext ==
    \/ ConfigOmitted
    \/ TextEmbedConfig_new
    \/ ConfigBuilderChain
    \/ embed_query
    \/ embed_file
    \/ embed_directory
    \/ embed_webpage
    \/ WhichModel_from
    \/ from_pretrained_hf
    \/ from_pretrained_cloud

\* ------------------------------------------------------------------------
\* L2 normalisation of a pooled row  (bert.rs)
\* ------------------------------------------------------------------------
\* the length of a pooled row
RowDim == 3

\* the largest magnitude of a component of a pooled row
MaxAbs == 1

\* the rows pooling can give: the sparse backends take the maximum of
\* ln(1 + relu(x)) * mask, which is never negative
PooledRows(b) ==
    [1 .. RowDim -> IF b \in {"OrtSparseBertEmbedder", "SparseBertEmbedder"}
                    THEN 0 .. MaxAbs ELSE (0 - MaxAbs) .. MaxAbs]

\* embeddings.mapv(|x| x * x).sum_axis(Axis(1)): the square of the row norm
SumSq(row) ==
    LET RECURSIVE Sum(_)
        Sum(k) == IF k > Len(row) THEN 0 ELSE row[k] * row[k] + Sum(k + 1)
    IN Sum(1)

\* the f32 quotient x / sqrt(sq): 0.0 / 0.0 is NaN
NaN == [nan |-> TRUE]

Quotient(x, sq) == [nan |-> FALSE, num |-> x, den_sq |-> sq]

\* &embeddings / &norms.insert_axis(Axis(1)): the row divided by its norm
DivideByNorm(row) ==
    [divisor |-> "norm",
     row     |-> [k \in DOMAIN row |->
                     IF SumSq(row) = 0 THEN NaN ELSE Quotient(row[k], SumSq(row))]]

\* normalize_l2(&pooled_output): the row divided by its norm, or by the
\* minimum epsilon when the norm is below it
DivideByNormOrEpsilon(row) ==
    IF SumSq(row) = 0
    THEN [divisor |-> "epsilon", row |-> [k \in DOMAIN row |-> Quotient(0, 0)]]
    ELSE DivideByNorm(row)

\* the normalisation of each backend
NormalizeRow(b, row) ==
    IF IsParallel(b) THEN DivideByNorm(row) ELSE DivideByNormOrEpsilon(row)

NormInit ==
    /\ backend \in BertBackends
    /\ pooled \in PooledRows(backend)
    /\ normalized = Unset
    /\ text_batch = <<>>
    /\ batch_size = None
    /\ mini = <<>>
    /\ e_outcome = "idle"
    /\ encodings = <<>>

NormIdle ==
    /\ pooled = <<>>
    /\ normalized = Unset

Normalize ==
    /\ normalized = Unset
    /\ pooled # <<>>
    /\ normalized' = NormalizeRow(backend, pooled)
    /\ UNCHANGED <<evars, ovars, cvars, pooled, tvars, rvars>>

\* ------------------------------------------------------------------------
\* The construction of a backend: the truncation of its tokenizer (bert.rs)
\* ------------------------------------------------------------------------
\* largest length a configuration file states
MaxLen == 3

\* TokenizerConfig, of tokenizer_config.json
TokenizerConfigs ==
    [max_length : Option(1 .. MaxLen), model_max_length : Option(1 .. MaxLen)]

\* Config, of config.json: max_position_embeddings is a number, not an Option
BertConfigs == [max_position_embeddings : 1 .. MaxLen]

\* the fallback of the ONNX constructors
FallbackMaxLength == 128

\* OrtBertEmbedder::new, OrtSparseBertEmbedder::new: the match on
\* (tokenizer_config.max_length, tokenizer_config.model_max_length)
OrtMaxLength(tc) ==
    IF tc.max_length # None /\ tc.model_max_length # None
    THEN Min(tc.max_length[1], tc.model_max_length[1])
    ELSE IF tc.max_length # None THEN tc.max_length[1]
    ELSE IF tc.model_max_length # None THEN tc.model_max_length[1]
    ELSE FallbackMaxLength

\* BertEmbedder::new, SparseBertEmbedder::new: tokenizer_config.json is not
\* read, the length is config.max_position_embeddings
TensorMaxLength(bc) == bc.max_position_embeddings

\* the backends that run an ONNX session; the others run a candle model
IsOnnx(b) == b \in {"OrtBertEmbedder", "OrtSparseBertEmbedder"}

\* TruncationParams { max_length, .. } of backend b
TruncationParams(b, tc, bc) ==
    [max_length |-> IF IsOnnx(b) THEN OrtMaxLength(tc)
                    ELSE TensorMaxLength(bc)]

ConstructInit ==
    /\ backend \in BertBackends
    /\ tokenizer_config \in TokenizerConfigs
    /\ bert_config \in BertConfigs
    /\ trunc = Unset
    /\ text_batch = <<>>
    /\ batch_size = None
    /\ mini = <<>>
    /\ e_outcome = "idle"
    /\ encodings = <<>>

ConstructIdle ==
    /\ tokenizer_config = Unset
    /\ bert_config = Unset
    /\ trunc = Unset

\* <Backend>::new up to tokenizer.with_truncation(Some(trunc))
Construct ==
    /\ trunc = Unset
    /\ tokenizer_config # Unset
    /\ trunc' = TruncationParams(backend, tokenizer_config, bert_config)
    /\ UNCHANGED <<evars, ovars, cvars, pooled, normalized, tokenizer_config,
                   bert_config, rvars>>

\* ------------------------------------------------------------------------
\* The collecting arm of emb_directory, over any results of its futures
\* (lib.rs)
\* ------------------------------------------------------------------------
\* Result<Option<Vec<EmbedData>>>, the type of the value of emb_text, for
\* item i: an Err, Ok(None), or Ok(Some) of no record or of the records of
\* one chunk group
ItemResults(i) ==
    {Err("Item"), OkNone, OkSome(<<>>), OkSome(GroupRecords(i, 1))}

CollectInit ==
    /\ item_results \in
          UNION {[1 .. n -> UNION {ItemResults(i) : i \in 1 .. MaxFiles}] :
                    n \in 0 .. MaxFiles}
    /\ \A i \in DOMAIN item_results : item_results[i] \in ItemResults(i)
    /\ consumed = 0
    /\ entry = "emb_directory"
    /\ embeder = "Bert"
    /\ adapter = FALSE
    /\ cpus = 1
    /\ exists = TRUE
    /\ supported = TRUE
    /\ dir = <<>>
    /\ pc = "streaming"
    /\ st = <<>>
    /\ running = 0
    /\ groups = <<>>
    /\ sink = <<>>
    /\ collected = <<>>
    /\ inner = Unset
    /\ ret = Unset
    /\ metadata = <<>>
    /\ carried = <<>>

CollectIdle ==
    /\ item_results = <<>>
    /\ consumed = 0

\* the stream yields the next result: filter_map and flat_map (lib.rs 292-293)
CollectItem ==
    /\ pc = "streaming" /\ consumed < Len(item_results)
    /\ consumed' = consumed + 1
    /\ collected' = StreamCollect(collected, item_results[consumed + 1])
    /\ UNCHANGED <<evars, cvars, pooled, normalized, tvars, item_results,
                   entry, embeder, adapter, cpus, exists, supported, dir, pc,
                   st, running, groups, sink, inner, ret, mvars>>

\* the stream is exhausted: .collect::<Vec<_>>().await; Ok(Some(embeddings))
CollectReturn ==
    /\ pc = "streaming" /\ consumed = Len(item_results)
    /\ inner' = OkSome(collected)
    /\ pc' = "returned"
    /\ UNCHANGED <<evars, cvars, nvars, entry, embeder, adapter, cpus, exists,
                   supported, dir, st, running, groups, sink, collected, ret,
                   mvars>>

CollectNext == CollectItem \/ CollectReturn

\* ------------------------------------------------------------------------
\* The specifications
\* ------------------------------------------------------------------------
Init ==
    OrchInit /\ EmbedIdle /\ ApiIdle /\ NormIdle /\ ConstructIdle /\ CollectIdle

Spec == Init /\ [][Next]_vars

InitEmbed ==
    /\ EmbedInit /\ OrchIdle /\ ApiIdle /\ NormIdle /\ ConstructIdle
    /\ CollectIdle

SpecEmbed == InitEmbed /\ [][EmbedNext]_vars

InitApi ==
    ApiInit /\ EmbedIdle /\ NormIdle /\ ConstructIdle /\ CollectIdle

SpecApi == InitApi /\ [][ApiNext]_vars

\* the executor polls the stream whenever a future can make progress, and
\* every file read and backend call returns: some step is taken while one is
\* possible
InitLive ==
    /\ OrchInitOf(LiveFiles, LiveGroups)
    /\ EmbedIdle /\ ApiIdle /\ NormIdle /\ ConstructIdle /\ CollectIdle

SpecLive == InitLive /\ [][Next]_vars /\ WF_vars(Next)

InitNorm ==
    NormInit /\ OrchIdle /\ ApiIdle /\ ConstructIdle /\ CollectIdle

SpecNorm == InitNorm /\ [][Normalize]_vars

InitConstruct ==
    /\ ConstructInit /\ OrchIdle /\ ApiIdle /\ CollectIdle
    /\ pooled = <<>> /\ normalized = Unset

SpecConstruct == InitConstruct /\ [][Construct]_vars

InitCollect ==
    CollectInit /\ EmbedIdle /\ ApiIdle /\ NormIdle /\ ConstructIdle

SpecCollect == InitCollect /\ [][CollectNext]_vars

\* ------------------------------------------------------------------------
\* Properties
\* ------------------------------------------------------------------------
Range(q) == {q[i] : i \in DOMAIN q}

BagOfSeq(q) == [x \in Range(q) |-> Cardinality({i \in DOMAIN q : q[i] = x})]

\* the records of item f when every step of it succeeds
ExpectedRecords(f) ==
    IF embeder = "Clip" THEN <<ImageRecord(f)>>
    ELSE Flatten([g \in 1 .. dir[f] |-> GroupRecords(f, g)])

ExpectedAll == Flatten([f \in DOMAIN dir |-> ExpectedRecords(f)])

Delivered == Flatten([i \in DOMAIN sink |-> sink[i].batch])

\* records of one file are in increasing (group, pos) order
InChunkOrder(q) ==
    \A i, j \in DOMAIN q :
        (i < j /\ q[i].file = q[j].file) =>
            \/ q[i].group < q[j].group
            \/ q[i].group = q[j].group /\ q[i].pos < q[j].pos

NoneDropped == \A k \in DOMAIN mini : mini[k] # Dropped

\* C1: a call of embed that returns Ok returns one result per input text,
\* the i-th result being the one computed from the i-th text (SpecEmbed).
C1_ResultFollowsInput ==
    e_outcome = "ok" =>
        /\ Len(encodings) = Len(text_batch)
        /\ \A i \in DOMAIN encodings :
              encodings[i].src = i /\ encodings[i].len = text_batch[i]

\* C2: a call of embed in which a sub-batch failed does not return Ok, and
\* no Ok carries fewer results than there are input texts (SpecEmbed).
C2_FailedSubBatchFailsCall ==
    e_outcome = "ok" => (NoneDropped /\ Len(encodings) >= Len(text_batch))

\* C3: the value a call of embed returns when no sub-batch fails is the same
\* for every batch size >= 1 (SpecEmbed).
C3_BatchSizeInvariant ==
    (e_outcome = "ok" /\ NoneDropped) =>
        \A n \in 1 .. (MaxBatch + 1) :
            encodings = EmbedAll(backend, text_batch, n)

\* C4: in a directory run never more than num_cpus items are in flight.
C4_InFlightBounded ==
    entry = "embed_directory" => NumInFlight <= cpus

\* C4 witness: the buffer is full while an item waits in the queue and an
\* earlier one has completed
C4_Witness ==
    /\ entry = "embed_directory"
    /\ NumInFlight = cpus
    /\ \E f \in DOMAIN st : st[f] = "Queued"
    /\ \E f \in DOMAIN st : st[f] = "Completed"

\* C5: with no adapter, when embed_directory returns, every item is in a
\* terminal state and the returned list holds the records of the completed
\* items, each once.
C5_CollectReturnsAll ==
    (entry = "embed_directory" /\ ~ adapter /\ IsOk(ret)) =>
        /\ \A f \in DOMAIN st : st[f] \in {"Completed", "Failed"}
        /\ ret.tag = "Ok(Some)"
        /\ BagOfSeq(ret.list) =
              BagOfSeq(Flatten([f \in DOMAIN st |->
                  IF st[f] = "Completed" THEN ExpectedRecords(f) ELSE <<>>]))

\* C5 witness: a collect run over three files with chunks returned, the
\* items having completed in another order than they were discovered
C5_Witness ==
    /\ entry = "embed_directory" /\ ~ adapter /\ embeder # "Clip"
    /\ ret.tag = "Ok(Some)"
    /\ Len(dir) = MaxFiles
    /\ \A f \in DOMAIN dir : dir[f] > 0
    /\ ret.list[1].file # 1

\* C6: with an adapter, the adapter has been called exactly once, with the
\* item's records, for every item that has completed and for no other, and
\* embed_directory returns Ok(None).
C6_SinkOncePerItem ==
    (entry = "embed_directory" /\ adapter) =>
        /\ \A f \in DOMAIN st :
              LET calls == {i \in DOMAIN sink : sink[i].item = f}
              IN /\ Cardinality(calls) = (IF st[f] = "Completed" THEN 1 ELSE 0)
                 /\ \A i \in calls : sink[i].batch = ExpectedRecords(f)
        /\ IsOk(ret) => ret = OkNone

\* C7: a directory run that returns has delivered to the adapter (stream
\* mode) or returned (collect mode) the same multiset of records: those of
\* all the files.
C7_StreamEqualsCollect ==
    (entry = "embed_directory" /\ IsOk(ret)) =>
        BagOfSeq(IF adapter THEN Delivered ELSE ret.list) = BagOfSeq(ExpectedAll)

\* C8: the records of one file are in chunk order in every batch given to
\* the adapter, in the list being collected and in the list returned.
C8_ChunkOrderWithinItem ==
    /\ \A i \in DOMAIN sink : InChunkOrder(sink[i].batch)
    /\ InChunkOrder(collected)
    /\ ret.tag = "Ok(Some)" => InChunkOrder(ret.list)

\* C8 witness: a collect run returned the records of files of several chunk
\* groups, a later file's records first
C8_Witness ==
    /\ entry = "embed_directory" /\ ~ adapter /\ embeder # "Clip"
    /\ ret.tag = "Ok(Some)"
    /\ Len(dir) >= 2
    /\ \A f \in DOMAIN dir : dir[f] >= 2
    /\ ret.list[1].file = 2

\* C9: a directory run in which an item failed returns no result.
C9_FailureAbortsRun ==
    (entry = "embed_directory" /\ \E f \in DOMAIN st : st[f] = "Failed") =>
        ~ IsOk(ret) /\ ~ IsOk(inner)

\* C9 witness: the embed call of an item failed after another item had
\* completed, and the run panicked
C9_Witness ==
    /\ entry = "embed_directory"
    /\ \E f \in DOMAIN st : st[f] = "Failed" /\ groups[f] # <<>>
    /\ \E f \in DOMAIN st : st[f] = "Completed"
    /\ ret = Panicked

\* C10: a call of embed_file with a path that does not exist ends in a
\* FileNotFound error value.
C10_MissingFileIsFileNotFound ==
    (entry \in {"embed_file", "py_embed_file"} /\ ~ exists /\ pc \in {"done", "panicked"}) =>
        ret \in {Err("FileNotFound"), PyErr("FileNotFoundError")}

\* C11: a call of embed_file that returns Ok has, with an adapter, given the
\* file's records to the adapter in one call and returned Ok(None), and
\* without one returned Ok(Some(records)) and called nothing, whatever the
\* variant of Embeder.
C11_FileRoutesToSink ==
    (entry \in {"embed_file", "py_embed_file"} /\ IsOk(ret)) =>
        IF adapter
        THEN /\ ret = OkNone
             /\ Len(sink) = 1
             /\ Delivered = ExpectedRecords(1)
        ELSE /\ ret = OkSome(ExpectedRecords(1))
             /\ sink = <<>>

\* C12: embed_webpage with Embeder::Clip ends in an InvalidModelSelection
\* error for every url, fetchable or not, with no call of the adapter and
\* no call of embed (SpecApi).
C12_ClipWebpageRejected ==
    (entry = "embed_webpage" /\ embeder = "Clip" /\ pc = "done") =>
        /\ ret = Err("InvalidModelSelection")
        /\ sink = <<>>
        /\ embed_calls = <<>>

\* C13: TextEmbedConfig::new with the strategy "semantic" and no semantic
\* encoder ends in a ConfigurationError error value: not in a panic, and
\* not in a config of another strategy (SpecApi).
C13_SemanticWithoutEncoderIsError ==
    (cfg_src = "new" /\ pc # "configure"
        /\ new_args.splitting_strategy = Some("semantic")
        /\ new_args.semantic_encoder = None) =>
        /\ ret \in {Err("ConfigurationError"), PyErr("ConfigurationError")}
        /\ config = None

\* C14: every TextEmbedConfig that TextEmbedConfig::new or the builder chain
\* of the audio example has made has a semantic encoder when its splitting
\* strategy is Semantic (SpecApi).
C14_SemanticImpliesEncoder ==
    config # None =>
        (config[1].splitting_strategy = Some(Semantic) =>
            config[1].semantic_encoder # None)

\* C14 witness: new has made a config of the Semantic strategy, and the
\* entry point called with it has returned
C14_Witness ==
    /\ cfg_src = "new" /\ pc = "done"
    /\ config # None
    /\ config[1].splitting_strategy = Some(Semantic)
    /\ config[1].semantic_encoder = Some("Jina")

\* C15: every call of embed is given no batch size, and then uses 32, or a
\* batch size greater than 0 (SpecApi).
C15_BatchSizePositive ==
    \A i \in DOMAIN embed_calls :
        unwrap_or(embed_calls[i].batch_size, 32) > 0

\* C16: TextEmbedConfig::new without arguments gives chunk_size 256,
\* batch_size 32 and buffer_size 100, and an entry point called without a
\* config resolves the chunk size 256 (SpecApi).
C16_Defaults ==
    /\ (cfg_src = "new" /\ new_args = NoArgs /\ config # None) =>
          /\ config[1].chunk_size = Some(256)
          /\ config[1].batch_size = Some(32)
          /\ config[1].buffer_size = Some(100)
    /\ (cfg_src = "none" /\ chunk_size # None) => chunk_size = Some(256)

\* C16 witness: an entry point called without a config, the default config
\* holding no chunk size, has resolved its chunk size and returned
C16_Witness ==
    /\ cfg_src = "none" /\ pc = "done"
    /\ entry = "embed_webpage"
    /\ rust_default.chunk_size = None
    /\ chunk_size = Some(256)

\* C17: a call of embed_query that returns Ok has called embed once, with
\* the whole list of queries, and returns one record per query, the i-th
\* holding the i-th query, its vector and no metadata (SpecApi).
C17_QueryVerbatim ==
    (entry \in {"embed_query", "py_embed_query"} /\ ret.tag = "Ok(Vec)") =>
        /\ Len(embed_calls) = 1
        /\ embed_calls[1].texts = query
        /\ Len(ret.list) = Len(query)
        /\ \A i \in DOMAIN ret.list :
              /\ ret.list[i].text = query[i]
              /\ ret.list[i].embedding = [src |-> i, text |-> query[i]]
              /\ ret.list[i].metadata = NoMetadata

\* C17 witness: embed_query returned the records of two different queries
C17_Witness ==
    /\ entry = "embed_query" /\ ret.tag = "Ok(Vec)"
    /\ Len(query) = 2
    /\ query[1] # query[2]
    /\ Len(ret.list) = 2

\* C18: the records of every chunk group of a file carry one metadata value,
\* the one get_metadata gave for that file, and never the one of another
\* file.
C18_MetadataUniform ==
    \A f \in DOMAIN carried : \A g \in DOMAIN carried[f] :
        groups[f][g] # Pending =>
            /\ carried[f][g] = metadata[f]
            /\ carried[f][g] = FileMetadata(f)
            /\ \A h \in DOMAIN carried \ {f} : carried[f][g] # FileMetadata(h)

\* C18 witness: two files were in flight together; the later one has
\* completed, and both groups of the earlier one are embedded
C18_Witness ==
    /\ entry = "embed_directory"
    /\ \E f, h \in DOMAIN st :
          /\ f < h
          /\ st[f] = "Embedding" /\ Len(groups[f]) = 2
          /\ \A g \in DOMAIN groups[f] : groups[f][g] # Pending
          /\ st[h] = "Completed" /\ Len(groups[h]) >= 1

\* C19: a construction that fails (a model that does not load, a model kind
\* the constructor does not take, a name WhichModel does not know) ends in an
\* error value, never in a panic (SpecApi).
C19_ConstructionFailureIsError ==
    (entry \in ConstructEntries /\ pc \in {"done", "panicked"}) =>
        /\ ret # Panicked
        /\ (entry = "from_pretrained_hf" /\ ~ loadable) => ret.tag = "PyErr"

\* C20: a pooled row of norm 0 is divided by the minimum epsilon, never by
\* its norm, and no component of the result is NaN (SpecNorm).
C20_NoDivisionByZero ==
    (normalized # Unset /\ SumSq(pooled) = 0) =>
        /\ normalized.divisor = "epsilon"
        /\ \A k \in DOMAIN normalized.row : ~ normalized.row[k].nan

\* the minimum rule: the minimum of the two lengths that are present, the
\* one that is present, 128 when neither is
MinRule(a, b) ==
    IF a # None /\ b # None THEN Min(a[1], b[1])
    ELSE IF a # None THEN a[1]
    ELSE IF b # None THEN b[1]
    ELSE 128

\* the model's max position length a backend has at hand: the ONNX
\* constructors read model_max_length, the candle ones max_position_embeddings
ModelMaxPosition ==
    IF IsOnnx(backend) THEN tokenizer_config.model_max_length
    ELSE Some(bert_config.max_position_embeddings)

\* C21: the truncation max length chosen at construction is the minimum rule
\* of the tokenizer's max length and the model's max position length, for
\* the candle backends as for the ONNX ones (SpecConstruct).
C21_MaxLengthIsMinRule ==
    trunc # Unset =>
        trunc.max_length = MinRule(tokenizer_config.max_length, ModelMaxPosition)

\* a directory run of emb_directory (the text embedders)
TextDirectoryRun == entry = "embed_directory" /\ embeder # "Clip"

Terminal == {"Completed", "Failed"}

\* the states of the item state machine, in order; the positions of an
\* emb_text future that is in the buffer are the InFlight state
ItemRank(s) ==
    CASE s = "Unseen" -> 0
      [] s = "Discovered" -> 1
      [] s = "Queued" -> 2
      [] s = "Created" -> 3
      [] s = "AwaitMetadata" -> 4
      [] s = "Embedding" -> 5
      [] s = "InSink" -> 6
      [] s \in Terminal -> 7

\* one step of item f is a step forward of the state machine
ItemStepForward(f) ==
    st'[f] # st[f] =>
        /\ st[f] \notin Terminal
        /\ IF st'[f] \in Terminal THEN InFlight(f)
           ELSE ItemRank(st'[f]) = ItemRank(st[f]) + 1

\* what a chunk group of item f gave is never computed again
EmbeddedOnce(f) ==
    \A g \in DOMAIN groups[f] :
        groups[f][g] # Pending =>
            g \in DOMAIN groups'[f] /\ groups'[f][g] = groups[f][g]

\* C22: in a directory run every item moves only forward through
\* Discovered, Queued, InFlight and then one of Completed and Failed: it is
\* not embedded twice, reaches a terminal state only from InFlight, and
\* never leaves a terminal state.
C22_ItemMovesForward ==
    [][TextDirectoryRun =>
          \A f \in DOMAIN st : ItemStepForward(f) /\ EmbeddedOnce(f)]_vars

\* C22 witness: with one slot, the first item completed, the second failed
\* and the third is still queued
C22_Witness ==
    /\ TextDirectoryRun
    /\ \E f, h, k \in DOMAIN st :
          st[f] = "Completed" /\ st[h] = "Failed" /\ st[k] = "Queued"
    /\ \E f \in DOMAIN st :
          st[f] = "Completed" /\ \E g \in DOMAIN groups[f] : groups[f][g] # Pending

\* item f has been scheduled or processed: its future is in the buffer or
\* over, a chunk group of it was given to the backend, or the adapter was
\* called with its records
Processed(f) ==
    \/ st[f] \in InFlightStates \cup Terminal
    \/ groups[f] # <<>>
    \/ \E i \in DOMAIN sink : sink[i].item = f

\* C23: in a directory run no item is in flight, embedded or given to the
\* adapter before the whole file list is enumerated, and a failure of the
\* enumeration ends the run in an error value with no item processed.
C23_DiscoveryBeforeScheduling ==
    entry = "embed_directory" =>
        /\ (\E f \in DOMAIN st : Processed(f)) =>
              \A f \in DOMAIN st : st[f] # "Unseen"
        /\ inner = Err("Discovery") =>
              /\ \A f \in DOMAIN st : ~ Processed(f)
              /\ pc \in {"done", "panicked"} => ret = Err("Discovery")

\* the call has ended: it returned or a panic unwound it
Ended == pc \in {"done", "panicked"}

\* a backend call of the item being polled has not returned
CallOutstanding ==
    /\ running # 0
    /\ \E g \in DOMAIN groups[running] : groups[running][g] = Pending

\* the step is the return of a backend call of the item being polled: with
\* the encodings of a chunk group, or with the Err that panics
CallReturns ==
    \/ groups'[running] # groups[running]
    \/ st'[running] = "Failed"

\* C24 as stated: under fair scheduling, with every call returning, a
\* directory run whose items are discovered ends with every item in a
\* terminal state (SpecLive).
C24_EndsWithAllTerminal ==
    (entry = "embed_directory" /\ pc = "discovered") ~>
        (Ended /\ \A f \in DOMAIN st : st[f] \in Terminal)

\* C24 (amended): under fair scheduling, with every call returning, a
\* directory run ends; when it returns, every item has completed (a run in
\* which a call failed ends by the panic and leaves the other items where
\* they were); and while a backend call is outstanding the only step of the
\* run is the return of that call: its slot is not given up and the run
\* does not end before (SpecLive).
C24_RunEnds ==
    /\ (entry = "embed_directory") => <>Ended
    /\ [](entry = "embed_directory" /\ pc = "done" =>
             \A f \in DOMAIN st : st[f] = "Completed")
    /\ [][(entry = "embed_directory" /\ CallOutstanding) => CallReturns]_vars

\* C24 witness: a run over the most files, each of some chunk groups, has
\* returned with one slot
C24_Witness ==
    /\ TextDirectoryRun /\ pc = "done" /\ cpus = 1
    /\ Len(dir) = LiveFiles
    /\ \A f \in DOMAIN dir : dir[f] > 0 /\ st[f] = "Completed"

\* the backends that pool with self.pooling (mean pooling among its kinds)
MeanPoolingBackends == {"OrtBertEmbedder", "BertEmbedder"}

\* C25: in the mean-pooling backends every vector of a returned call is the
\* one its text gives unpadded: the pad positions of its sub-batch are
\* neither attended to nor counted in the mean (SpecEmbed).
C25_PaddingDoesNotBiasMean ==
    (e_outcome = "ok" /\ backend \in MeanPoolingBackends) =>
        \A i \in DOMAIN encodings :
            encodings[i] = EmbedRow(backend, text_batch, encodings[i].src,
                                    text_batch[encodings[i].src])

\* the items whose adapter call is executing
InSinkCall == {f \in DOMAIN st : st[f] = "InSink"}

\* C26: in a directory run with an adapter at most one call of the adapter
\* is executing at any time, and it is the call of the future being polled.
C26_SinkCallsDoNotOverlap ==
    (entry = "embed_directory" /\ adapter) =>
        /\ Cardinality(InSinkCall) <= 1
        /\ \A f \in InSinkCall : running = f

\* C26 witness: the adapter is being called for an item while another
\* item's future is suspended in the buffer and an earlier call is over
C26_Witness ==
    /\ entry = "embed_directory" /\ adapter
    /\ \E f, h \in DOMAIN st : st[f] = "InSink" /\ st[h] = "AwaitMetadata"
    /\ sink # <<>>

\* the results among rs that carry a list, in order
WithList(rs) == SelectSeq(rs, LAMBDA r : r.tag = "Ok(Some)")

DeliveriesOf(f) == {i \in DOMAIN sink : sink[i].item = f}

\* C28: when a directory run with an adapter has ended by the panic of a
\* failed item, the adapter has been given the records of every item that
\* completed before, once each, and of no other item: nothing is taken
\* back, and the queued and in-flight items are not delivered.
C28_AbortKeepsDeliveries ==
    (entry = "embed_directory" /\ adapter /\ pc = "panicked"
        /\ \E f \in DOMAIN st : st[f] = "Failed") =>
        /\ \A f \in DOMAIN st :
              /\ st[f] = "Completed" => Cardinality(DeliveriesOf(f)) = 1
              /\ st[f] # "Completed" => DeliveriesOf(f) = {}
        /\ \A i \in DOMAIN sink : sink[i].batch = ExpectedRecords(sink[i].item)
        /\ Len(sink) = Cardinality({f \in DOMAIN st : st[f] = "Completed"})

\* C28 witness: the run was aborted by an item's failed embed call after
\* another item's records were given to the adapter, with an item still
\* queued
C28_Witness ==
    /\ entry = "embed_directory" /\ adapter /\ pc = "panicked"
    /\ \E f \in DOMAIN st : st[f] = "Failed" /\ groups[f] # <<>>
    /\ \E f \in DOMAIN st : st[f] = "Completed" /\ sink[1].batch # <<>>
    /\ \E f \in DOMAIN st : st[f] = "Queued"

\* C29: a call of the binding's embed_file with a path that does not exist
\* does nothing but return the error: no future of emb_text or emb_image is
\* made, no chunk group is given to the backend, the adapter's upsert is not
\* called, the library returns no value, and the call ends in
\* FileNotFoundError.
C29_MissingPathFailsFirst ==
    (entry = "py_embed_file" /\ ~ exists) =>
        /\ \A f \in DOMAIN st : st[f] = "Unseen" /\ groups[f] = <<>>
        /\ sink = <<>>
        /\ inner = Unset
        /\ pc \in {"start", "done"}
        /\ ret = (IF pc = "done" THEN PyErr("FileNotFoundError") ELSE Unset)

\* C29 witness: the call with an adapter and a missing path has returned
C29_Witness ==
    /\ entry = "py_embed_file" /\ ~ exists /\ adapter
    /\ pc = "done" /\ ret = PyErr("FileNotFoundError")

====
